---- MODULE Spec2Model ----
(***************************************************************************)
(* Model of the expense tracker tool server (src/main.py).                 *)
(*                                                                         *)
(* The store is one SQLite file with two tables, expenses and income, each *)
(* with an AUTOINCREMENT primary key.  Every tool call is a coroutine that *)
(* opens its own connection; it can be suspended at each await, so calls   *)
(* of different tasks interleave between their statements.  A statement    *)
(* that writes (INSERT / UPDATE / DELETE) becomes visible to the other     *)
(* connections at its commit; the store's write lock keeps any other       *)
(* writer out between the statement and its commit, so the pair is one     *)
(* step of the model.  A SELECT sees the store as of its own execution.    *)
(*                                                                         *)
(* Text values are modelled as follows.  A date is a sequence of digits,   *)
(* compared as SQLite compares TEXT (lexicographically); the other text    *)
(* columns are TLA+ strings.  An optional argument of a tool is a set: {}  *)
(* is Python's None (argument omitted), {v} is the supplied value v.       *)
(***************************************************************************)
EXTENDS Integers, Sequences, FiniteSets, TLC

VARIABLES
    expenses,   \* rows of table expenses
    income,     \* rows of table income
    expSeq,     \* sqlite_sequence entry of expenses (largest id ever assigned)
    incSeq,     \* sqlite_sequence entry of income
    task,       \* per task slot: position in the running coroutine, its arguments and locals
    last,       \* the most recent return of a tool call: tool, arguments, result
    hist,       \* history variables about the call a task runs (not program state)
    deletedOk,  \* history: <<table, id>> of every delete_* call that has returned status ok
    calls       \* number of operations started so far (tool calls and restarts)

vars == <<expenses, income, expSeq, incSeq, task, last, hist, deletedOk, calls>>

----------------------------------------------------------------------------
(* Bounds of the model *)

MaxCalls == 3
MaxExpenseId == 2
MaxIncomeId == 1

Tasks == {"t1", "t2"}

Opt(S) == {{}} \cup {{v} : v \in S}
Val(o) == CHOOSE v \in o : TRUE

(* Input values.  A date is the digit sequence of its text: "1" < "10" < "2"
   as text, while 1 < 2 < 10 as numbers. *)
Dates == {<<1>>, <<1, 0>>, <<2>>}
Ranges == {<<<<1>>, <<2>>>>, <<<<1, 0>>, <<2>>>>, <<<<1, 0>>, <<1, 0>>>>, <<<<2>>, <<1, 0>>>>}
CategoryFilters == Opt({"", "test"})

ExpenseInputs ==
    {[date |-> <<1, 0>>, amount |-> 2, category |-> "test", subcategory |-> "", note |-> ""],
     [date |-> <<1, 0>>, amount |-> 3, category |-> "food", subcategory |-> "x", note |-> "x"],
     [date |-> <<2>>, amount |-> 0, category |-> "food", subcategory |-> "", note |-> "x"],
     [date |-> <<1>>, amount |-> 3, category |-> "test", subcategory |-> "x", note |-> ""]}

IncomeInputs ==
    {[date |-> <<1, 0>>, amount |-> 5, source |-> "salary", note |-> ""],
     [date |-> <<2>>, amount |-> 0, source |-> "refund", note |-> "x"]}

ExpenseEdits ==
    {[date |-> {}, amount |-> {}, category |-> {}, subcategory |-> {}, note |-> {}],
     [date |-> {}, amount |-> {0}, category |-> {}, subcategory |-> {}, note |-> {}],
     [date |-> {}, amount |-> {}, category |-> {}, subcategory |-> {""}, note |-> {""}],
     [date |-> {<<2>>}, amount |-> {}, category |-> {""}, subcategory |-> {}, note |-> {}],
     [date |-> {<<1>>}, amount |-> {2}, category |-> {"test"}, subcategory |-> {"x"},
      note |-> {"x"}]}

IncomeEdits ==
    {[date |-> {}, amount |-> {}, source |-> {}, note |-> {}],
     [date |-> {}, amount |-> {0}, source |-> {}, note |-> {""}],
     [date |-> {<<1>>}, amount |-> {2}, source |-> {"bonus"}, note |-> {"x"}]}

----------------------------------------------------------------------------
(* SQL helpers *)

RECURSIVE TextLess(_, _)
TextLess(a, b) ==
    IF b = <<>> THEN FALSE
    ELSE IF a = <<>> THEN TRUE
    ELSE IF Head(a) < Head(b) THEN TRUE
    ELSE IF Head(a) > Head(b) THEN FALSE
    ELSE TextLess(Tail(a), Tail(b))

(* x BETWEEN lo AND hi  ==  x >= lo AND x <= hi *)
Between(x, lo, hi) == ~TextLess(x, lo) /\ ~TextLess(hi, x)

InRange(table, start_date, end_date) ==
    {r \in table : Between(r.date, start_date, end_date)}

RowsWithId(table, id) == {r \in table : r.id = id}

(* SUM(amount): NULL (here {}) over no rows *)
RECURSIVE SumRec(_)
SumRec(rows) ==
    IF rows = {} THEN 0
    ELSE LET r == CHOOSE x \in rows : TRUE IN r.amount + SumRec(rows \ {r})

SqlSum(rows) == IF rows = {} THEN {} ELSE {SumRec(rows)}

(* Variant: ORDER BY date DESC, id ASC. *)
BeforeIdAsc(r, s) == TextLess(s.date, r.date) \/ (r.date = s.date /\ r.id < s.id)

(* ORDER BY date DESC, id DESC *)
Before(r, s) == TextLess(s.date, r.date) \/ (r.date = s.date /\ r.id > s.id)

RECURSIVE OrderByDateIdDesc(_)
OrderByDateIdDesc(rows) ==
    IF rows = {} THEN <<>>
    ELSE LET first == CHOOSE r \in rows : \A s \in rows \ {r} : Before(r, s)
         IN <<first>> \o OrderByDateIdDesc(rows \ {first})

----------------------------------------------------------------------------
(* Task slots *)

Idle == [pc |-> "idle", op |-> "none", args |-> <<>>, local |-> <<>>]
NoHist == [late |-> FALSE, seen |-> <<>>]
NoReturn == [op |-> "none", args |-> <<>>, ret |-> <<>>, hist |-> NoHist]

CanCall(p) == task[p].pc = "idle" /\ calls < MaxCalls

Return(p, op, args, ret, h) == [op |-> op, args |-> args, ret |-> ret, hist |-> h]

Totals(ex, inc, start_date, end_date) ==
    <<SumRec(InRange(ex, start_date, end_date)), SumRec(InRange(inc, start_date, end_date))>>

(* History bookkeeping of a committed write: every get_balance call that is
   between its two queries has seen one more store state. *)
Observe(ex, inc) ==
    [q \in Tasks |->
        IF task[q].pc = "income"
        THEN [hist[q] EXCEPT !.seen = Append(@, Totals(ex, inc, task[q].args.start_date,
                                                       task[q].args.end_date))]
        ELSE hist[q]]

Init ==
    /\ expenses = {}
    /\ income = {}
    /\ expSeq = 0
    /\ incSeq = 0
    /\ task = [p \in Tasks |-> Idle]
    /\ last = NoReturn
    /\ hist = [p \in Tasks |-> NoHist]
    /\ deletedOk = {}
    /\ calls = 0

----------------------------------------------------------------------------
(* add_expense / add_income *)

(* cur.lastrowid of an INSERT into an AUTOINCREMENT table *)
NextRowId(seq) == seq + 1

add_expense(p, date, amount, category, subcategory, note) ==
    /\ CanCall(p)
    /\ expSeq < MaxExpenseId
    /\ LET expense_id == NextRowId(expSeq)
           row == [id |-> expense_id, date |-> date, amount |-> amount,
                   category |-> category, subcategory |-> subcategory, note |-> note]
       IN /\ expenses' = expenses \cup {row}
          /\ expSeq' = expense_id
          /\ last' = Return(p, "add_expense", row, [status |-> "ok", id |-> expense_id],
                            NoHist)
          /\ hist' = Observe(expenses', income)
    /\ calls' = calls + 1
    /\ UNCHANGED <<income, incSeq, task, deletedOk>>

add_income(p, date, amount, source, note) ==
    /\ CanCall(p)
    /\ incSeq < MaxIncomeId
    /\ LET income_id == NextRowId(incSeq)
           row == [id |-> income_id, date |-> date, amount |-> amount,
                   source |-> source, note |-> note]
       IN /\ income' = income \cup {row}
          /\ incSeq' = income_id
          /\ last' = Return(p, "add_income", row, [status |-> "ok", id |-> income_id],
                            NoHist)
          /\ hist' = Observe(expenses, income')
    /\ calls' = calls + 1
    /\ UNCHANGED <<expenses, expSeq, task, deletedOk>>

----------------------------------------------------------------------------
(* edit_expense / edit_income *)

(* The identifiers a caller passes: those assigned so far and one that was
   never assigned. *)
ExpenseIds == 1 .. NextRowId(expSeq)
IncomeIds == 1 .. NextRowId(incSeq)

NotFound(id) == [status |-> "error", message |-> "not found", id |-> id]
NoOp == [status |-> "error", message |-> "No fields to update"]

(* "if <arg> is not None" *)
IsSupplied(arg) == arg # {}

(* The dynamic update: the columns named in SET, in the order the code
   appends them, and the parameters bound to them. *)
Updates(cols, args) == SelectSeq(cols, LAMBDA c : IsSupplied(args[c]))
Params(updates, args) == [i \in 1 .. Len(updates) |-> Val(args[updates[i]])]

RECURSIVE SetColumns(_, _, _)
SetColumns(row, updates, params) ==
    IF updates = <<>> THEN row
    ELSE SetColumns([row EXCEPT ![Head(updates)] = Head(params)],
                    Tail(updates), Tail(params))

(* Variant: UPDATE without the WHERE clause. *)
SqlUpdateAll(table, id, updates, params) ==
    {SetColumns(r, updates, params) : r \in table}

(* UPDATE table SET ... WHERE id = ? *)
SqlUpdate(table, id, updates, params) ==
    {IF r.id = id THEN SetColumns(r, updates, params) ELSE r : r \in table}

ExpenseColumns == <<"date", "amount", "category", "subcategory", "note">>
IncomeColumns == <<"date", "amount", "source", "note">>

(* Variant: the update is issued without the "No fields to update" check. *)
EditCallNoCheck(p, op, table, cols, args) ==
    IF RowsWithId(table, args.id) = {}
    THEN /\ last' = Return(p, op, args, NotFound(args.id), NoHist)
         /\ UNCHANGED task
    ELSE /\ task' = [task EXCEPT ![p] =
                [pc |-> "update", op |-> op, args |-> args,
                 local |-> [updates |-> Updates(cols, args),
                            params |-> Params(Updates(cols, args), args)]]]
         /\ UNCHANGED last

(* The existence pre-read, the building of the update and the "No fields to
   update" return run without a write of this call in between. *)
EditCall(p, op, table, cols, args) ==
    LET found == RowsWithId(table, args.id) # {}
        updates == Updates(cols, args)
    IN IF ~found
       THEN /\ last' = Return(p, op, args, NotFound(args.id), NoHist)
            /\ UNCHANGED task
       ELSE IF updates = <<>>
       THEN /\ last' = Return(p, op, args, NoOp, NoHist)
            /\ UNCHANGED task
       ELSE /\ task' = [task EXCEPT ![p] =
                    [pc |-> "update", op |-> op, args |-> args,
                     local |-> [updates |-> updates, params |-> Params(updates, args)]]]
            /\ UNCHANGED last

EditReturn(p) ==
    Return(p, task[p].op, task[p].args,
           [status |-> "ok", id |-> task[p].args.id,
            updated_fields |-> Len(task[p].local.updates)], NoHist)

edit_expense(p, expense_id, date, amount, category, subcategory, note) ==
    /\ CanCall(p)
    /\ EditCall(p, "edit_expense", expenses, ExpenseColumns,
                [id |-> expense_id, date |-> date, amount |-> amount,
                 category |-> category, subcategory |-> subcategory, note |-> note])
    /\ calls' = calls + 1
    /\ UNCHANGED <<expenses, income, expSeq, incSeq, hist, deletedOk>>

edit_expense_update(p) ==
    /\ task[p].pc = "update"
    /\ task[p].op = "edit_expense"
    /\ expenses' = SqlUpdate(expenses, task[p].args.id, task[p].local.updates,
                             task[p].local.params)
    /\ last' = EditReturn(p)
    /\ task' = [task EXCEPT ![p] = Idle]
    /\ hist' = Observe(expenses', income)
    /\ UNCHANGED <<income, expSeq, incSeq, deletedOk, calls>>

edit_income(p, income_id, date, amount, source, note) ==
    /\ CanCall(p)
    /\ EditCall(p, "edit_income", income, IncomeColumns,
                [id |-> income_id, date |-> date, amount |-> amount,
                 source |-> source, note |-> note])
    /\ calls' = calls + 1
    /\ UNCHANGED <<expenses, income, expSeq, incSeq, hist, deletedOk>>

edit_income_update(p) ==
    /\ task[p].pc = "update"
    /\ task[p].op = "edit_income"
    /\ income' = SqlUpdate(income, task[p].args.id, task[p].local.updates,
                           task[p].local.params)
    /\ last' = EditReturn(p)
    /\ task' = [task EXCEPT ![p] = Idle]
    /\ hist' = Observe(expenses, income')
    /\ UNCHANGED <<expenses, expSeq, incSeq, deletedOk, calls>>

----------------------------------------------------------------------------
(* delete_expense / delete_income *)

(* Variant: DELETE without the WHERE clause. *)
SqlDeleteAll(table, id) == {}

(* DELETE FROM table WHERE id = ? *)
SqlDelete(table, id) == {r \in table : r.id # id}

(* History: the call starts after a delete of the same row has returned ok. *)
Late(name, id) == [NoHist EXCEPT !.late = <<name, id>> \in deletedOk]

(* Variant: the DELETE is issued without the existence pre-read. *)
DeleteCallNoCheck(p, op, table, name, id) ==
    /\ task' = [task EXCEPT ![p] =
            [pc |-> "delete", op |-> op, args |-> [id |-> id], local |-> <<>>]]
    /\ hist' = [hist EXCEPT ![p] = Late(name, id)]
    /\ UNCHANGED last

DeleteCall(p, op, table, name, id) ==
    IF RowsWithId(table, id) = {}
    THEN /\ last' = Return(p, op, [id |-> id], NotFound(id), Late(name, id))
         /\ UNCHANGED <<task, hist>>
    ELSE /\ task' = [task EXCEPT ![p] =
                [pc |-> "delete", op |-> op, args |-> [id |-> id], local |-> <<>>]]
         /\ hist' = [hist EXCEPT ![p] = Late(name, id)]
         /\ UNCHANGED last

DeleteReturn(p) ==
    Return(p, task[p].op, task[p].args, [status |-> "ok", id |-> task[p].args.id], hist[p])

delete_expense(p, expense_id) ==
    /\ CanCall(p)
    /\ DeleteCall(p, "delete_expense", expenses, "expenses", expense_id)
    /\ calls' = calls + 1
    /\ UNCHANGED <<expenses, income, expSeq, incSeq, deletedOk>>

delete_expense_delete(p) ==
    /\ task[p].pc = "delete"
    /\ task[p].op = "delete_expense"
    /\ expenses' = SqlDelete(expenses, task[p].args.id)
    /\ last' = DeleteReturn(p)
    /\ task' = [task EXCEPT ![p] = Idle]
    /\ hist' = [Observe(expenses', income) EXCEPT ![p] = NoHist]
    /\ deletedOk' = deletedOk \cup {<<"expenses", task[p].args.id>>}
    /\ UNCHANGED <<income, expSeq, incSeq, calls>>

delete_income(p, income_id) ==
    /\ CanCall(p)
    /\ DeleteCall(p, "delete_income", income, "income", income_id)
    /\ calls' = calls + 1
    /\ UNCHANGED <<expenses, income, expSeq, incSeq, deletedOk>>

delete_income_delete(p) ==
    /\ task[p].pc = "delete"
    /\ task[p].op = "delete_income"
    /\ income' = SqlDelete(income, task[p].args.id)
    /\ last' = DeleteReturn(p)
    /\ task' = [task EXCEPT ![p] = Idle]
    /\ hist' = [Observe(expenses, income') EXCEPT ![p] = NoHist]
    /\ deletedOk' = deletedOk \cup {<<"income", task[p].args.id>>}
    /\ UNCHANGED <<expenses, expSeq, incSeq, calls>>

----------------------------------------------------------------------------
(* list_expenses / list_income *)

SqlList(table, start_date, end_date) ==
    OrderByDateIdDesc(InRange(table, start_date, end_date))

list_expenses(p, start_date, end_date) ==
    /\ CanCall(p)
    /\ last' = Return(p, "list_expenses",
                      [start_date |-> start_date, end_date |-> end_date],
                      SqlList(expenses, start_date, end_date), NoHist)
    /\ calls' = calls + 1
    /\ UNCHANGED <<expenses, income, expSeq, incSeq, task, hist, deletedOk>>

list_income(p, start_date, end_date) ==
    /\ CanCall(p)
    /\ last' = Return(p, "list_income",
                      [start_date |-> start_date, end_date |-> end_date],
                      SqlList(income, start_date, end_date), NoHist)
    /\ calls' = calls + 1
    /\ UNCHANGED <<expenses, income, expSeq, incSeq, task, hist, deletedOk>>

----------------------------------------------------------------------------
(* get_balance *)

(* result[0] if result[0] is not None else 0 *)
OrZero(result) == IF result # {} THEN Val(result) ELSE 0

(* Variant: balance = total_expenses - total_income. *)
BalanceResultSwapped(total_income, total_expenses, start_date, end_date) ==
    [total_income |-> total_income, total_expenses |-> total_expenses,
     balance |-> total_expenses - total_income,
     start_date |-> start_date, end_date |-> end_date]

BalanceResult(total_income, total_expenses, start_date, end_date) ==
    [total_income |-> total_income, total_expenses |-> total_expenses,
     balance |-> total_income - total_expenses,
     start_date |-> start_date, end_date |-> end_date]

(* Variant: both queries read one snapshot, taken at the first query. *)
IncomeQueryInSnapshot(p) == {hist[p].seen[1][2]}

(* SELECT SUM(amount) FROM income ...: the second query reads the store as it
   is when it runs, not as it was at the first query. *)
IncomeQuery(p) ==
    SqlSum(InRange(income, task[p].args.start_date, task[p].args.end_date))

get_balance(p, start_date, end_date) ==
    /\ CanCall(p)
    /\ task' = [task EXCEPT ![p] =
            [pc |-> "income", op |-> "get_balance",
             args |-> [start_date |-> start_date, end_date |-> end_date],
             local |-> [total_expenses |->
                            OrZero(SqlSum(InRange(expenses, start_date, end_date)))]]]
    /\ hist' = [hist EXCEPT ![p] =
            [NoHist EXCEPT !.seen = <<Totals(expenses, income, start_date, end_date)>>]]
    /\ calls' = calls + 1
    /\ UNCHANGED <<expenses, income, expSeq, incSeq, last, deletedOk>>

get_balance_income(p) ==
    /\ task[p].pc = "income"
    /\ LET a == task[p].args
           total_income == OrZero(IncomeQuery(p))
       IN last' = Return(p, "get_balance", a,
              BalanceResult(total_income, task[p].local.total_expenses,
                            a.start_date, a.end_date), hist[p])
    /\ task' = [task EXCEPT ![p] = Idle]
    /\ hist' = [hist EXCEPT ![p] = NoHist]
    /\ UNCHANGED <<expenses, income, expSeq, incSeq, deletedOk, calls>>

----------------------------------------------------------------------------
(* summarize *)

(* "if category:" -- None and '' are both false *)
Truthy(o) == o # {} /\ Val(o) # ""

Selected(start_date, end_date, category) ==
    IF Truthy(category)
    THEN {r \in InRange(expenses, start_date, end_date) : r.category = Val(category)}
    ELSE InRange(expenses, start_date, end_date)

(* GROUP BY category *)
GroupBy(rows) ==
    {[category |-> c,
      total_amount |-> SumRec({r \in rows : r.category = c}),
      count |-> Cardinality({r \in rows : r.category = c})] :
        c \in {r.category : r \in rows}}

(* ORDER BY total_amount DESC: the order of groups with equal totals is the
   store's choice. *)
OrderedByTotalDesc(groups) ==
    {g \in [1 .. Cardinality(groups) -> groups] :
        /\ {g[i] : i \in DOMAIN g} = groups
        /\ \A i, j \in DOMAIN g : i < j => g[i].total_amount >= g[j].total_amount}

summarize(p, start_date, end_date, category) ==
    /\ CanCall(p)
    /\ \E g \in OrderedByTotalDesc(GroupBy(Selected(start_date, end_date, category))) :
        last' = Return(p, "summarize",
            [start_date |-> start_date, end_date |-> end_date, category |-> category],
            g, NoHist)
    /\ calls' = calls + 1
    /\ UNCHANGED <<expenses, income, expSeq, incSeq, task, hist, deletedOk>>

----------------------------------------------------------------------------
(* init_db on the existing file: a restart of the process.  The coroutines
   of the old process and what they returned are gone. *)

(* The date of the test row is written "20" for 2000-01-01. *)
TestRow(id) == [id |-> id, date |-> <<2, 0>>, amount |-> 0, category |-> "test",
                subcategory |-> "", note |-> ""]

(* INSERT OR IGNORE ... 'test'; DELETE FROM expenses WHERE category = 'test' *)
SelfTest(table, id) == {r \in table \cup {TestRow(id)} : r.category # "test"}

init_db ==
    /\ calls < MaxCalls
    /\ expenses' = SelfTest(expenses, NextRowId(expSeq))
    /\ expSeq' = NextRowId(expSeq)
    /\ task' = [p \in Tasks |-> Idle]
    /\ hist' = [p \in Tasks |-> NoHist]
    /\ last' = NoReturn
    /\ calls' = calls + 1
    /\ UNCHANGED <<income, incSeq, deletedOk>>

----------------------------------------------------------------------------
Next ==
    \/ \E p \in Tasks, e \in ExpenseInputs :
            add_expense(p, e.date, e.amount, e.category, e.subcategory, e.note)
    \/ \E p \in Tasks, i \in IncomeInputs :
            add_income(p, i.date, i.amount, i.source, i.note)
    \/ \E p \in Tasks, expense_id \in ExpenseIds, e \in ExpenseEdits :
            edit_expense(p, expense_id, e.date, e.amount, e.category, e.subcategory, e.note)
    \/ \E p \in Tasks : edit_expense_update(p)
    \/ \E p \in Tasks, income_id \in IncomeIds, i \in IncomeEdits :
            edit_income(p, income_id, i.date, i.amount, i.source, i.note)
    \/ \E p \in Tasks : edit_income_update(p)
    \/ \E p \in Tasks, expense_id \in ExpenseIds : delete_expense(p, expense_id)
    \/ \E p \in Tasks : delete_expense_delete(p)
    \/ \E p \in Tasks, income_id \in IncomeIds : delete_income(p, income_id)
    \/ \E p \in Tasks : delete_income_delete(p)
    \/ \E p \in Tasks, r \in Ranges : list_expenses(p, r[1], r[2])
    \/ \E p \in Tasks, r \in Ranges : list_income(p, r[1], r[2])
    \/ \E p \in Tasks, r \in Ranges : get_balance(p, r[1], r[2])
    \/ \E p \in Tasks : get_balance_income(p)
    \/ \E p \in Tasks, r \in Ranges, category \in CategoryFilters :
            summarize(p, r[1], r[2], category)
    \/ init_db

Spec == Init /\ [][Next]_vars

----------------------------------------------------------------------------
(* Properties.  The definitions below state what is checked; they use their
   own definitions of the text order and of the totals. *)

Edits == {"edit_expense", "edit_income"}
Deletes == {"delete_expense", "delete_income"}
TableOf(op) == IF op \in {"edit_expense", "delete_expense"} THEN expenses ELSE income
Present(op, id) == \E r \in TableOf(op) : r.id = id
Quiet == \A q \in Tasks : task[q].pc = "idle"

(* a <= b for texts: a is a prefix of b, or a is smaller at the first
   position where they differ *)
DateLeq(a, b) ==
    \E k \in 0 .. Len(a) :
        /\ k <= Len(b)
        /\ \A i \in 1 .. k : a[i] = b[i]
        /\ (k = Len(a) \/ (k < Len(b) /\ a[k + 1] < b[k + 1]))

Within(table, start_date, end_date) ==
    {r \in table : DateLeq(start_date, r.date) /\ DateLeq(r.date, end_date)}

RECURSIVE AmountUpTo(_, _)
AmountUpTo(rows, n) ==
    IF n = 0 THEN 0
    ELSE AmountUpTo(rows, n - 1)
         + (IF \E r \in rows : r.id = n THEN (CHOOSE r \in rows : r.id = n).amount ELSE 0)

TrueExpenses(start_date, end_date) == AmountUpTo(Within(expenses, start_date, end_date), expSeq)
TrueIncome(start_date, end_date) == AmountUpTo(Within(income, start_date, end_date), incSeq)

(* Steps of the handlers, told apart by what they change *)
ReturnsAtOnce(ops) == calls' = calls + 1 /\ task' = task /\ last'.op \in ops
Proceeds(p, pc) == task[p].pc = "idle" /\ task'[p].pc = pc
Writes(p, pc) == task[p].pc = pc /\ task'[p].pc = "idle" /\ calls' = calls
InitDbStep == expSeq' # expSeq /\ last'.op = "none"

AllOmitted(args) == \A c \in DOMAIN args : c = "id" \/ args[c] = {}
NumSupplied(args) == Cardinality({c \in DOMAIN args : c # "id" /\ args[c] # {}})

(* C1 as written: edit_expense / edit_income called with every optional field
   omitted returns the NoOp error whether or not the identifier exists. *)
C1_NoOpForEveryId ==
    (last.op \in Edits /\ AllOmitted(last.args)) => last.ret = NoOp

(* C1 amended: edit_expense / edit_income called with every optional field
   omitted returns at once, with the NoOp error when a row with the
   identifier exists and with the NotFound error when none exists, and leaves
   both tables unchanged in either case. *)
C1_NoOpOnlyForExistingId ==
    [][/\ \A p \in Tasks : Proceeds(p, "update") => ~AllOmitted(task'[p].args)
       /\ (ReturnsAtOnce(Edits) /\ AllOmitted(last'.args)) =>
            /\ last'.ret = IF Present(last'.op, last'.args.id)
                           THEN NoOp ELSE NotFound(last'.args.id)
            /\ expenses' = expenses
            /\ income' = income]_vars

C1_Witness ==
    /\ last.op = "edit_income"
    /\ AllOmitted(last.args)
    /\ Present("edit_income", last.args.id)
    /\ last.ret = NoOp

(* C2: with no other operation running, edit_* and delete_* called with an
   identifier that is not in the corresponding table return the NotFound
   error (the call goes no further) and leave both tables as they were. *)
C2_NotFoundLeavesTables ==
    [][Quiet =>
        /\ \A p \in Tasks :
              (Proceeds(p, "update") \/ Proceeds(p, "delete")) =>
                  Present(task'[p].op, task'[p].args.id)
        /\ (ReturnsAtOnce(Edits \cup Deletes) /\ ~Present(last'.op, last'.args.id)) =>
              /\ last'.ret = NotFound(last'.args.id)
              /\ expenses' = expenses
              /\ income' = income]_vars

C2_Witness ==
    /\ Quiet
    /\ last.op = "delete_income"
    /\ income # {}
    /\ ~Present("delete_income", last.args.id)
    /\ last.ret = NotFound(last.args.id)

(* C3: an edit whose UPDATE finds the row sets exactly the supplied fields of
   that row to the supplied values, leaves its omitted fields, every other
   row and the other table unchanged, and returns status ok with
   updated_fields equal to the number of supplied fields. *)
Edited(row, args) ==
    [c \in DOMAIN row |->
        IF c \in DOMAIN args /\ c # "id" /\ args[c] # {}
        THEN (CHOOSE v \in args[c] : TRUE) ELSE row[c]]

EditedTable(table, args) ==
    {IF r.id = args.id THEN Edited(r, args) ELSE r : r \in table}

C3_EditSetsSuppliedFields ==
    [][\A p \in Tasks :
        (Writes(p, "update") /\ Present(task[p].op, task[p].args.id)) =>
            /\ last'.op = task[p].op
            /\ last'.ret = [status |-> "ok", id |-> task[p].args.id,
                            updated_fields |-> NumSupplied(task[p].args)]
            /\ IF task[p].op = "edit_expense"
               THEN expenses' = EditedTable(expenses, task[p].args) /\ income' = income
               ELSE income' = EditedTable(income, task[p].args) /\ expenses' = expenses]_vars

C3_Witness ==
    /\ last.op = "edit_expense"
    /\ last.ret.status = "ok"
    /\ last.ret.updated_fields = 2
    /\ last.args.subcategory = {""}
    /\ last.args.note = {""}
    /\ \E r \in expenses :
        /\ r.id = last.args.id
        /\ r.subcategory = "" /\ r.note = "" /\ r.amount = 3 /\ r.category = "food"
    /\ \E r \in expenses : r.id # last.args.id

(* C4: a delete whose DELETE finds the row removes exactly that row, leaves
   every other row of both tables unchanged and returns status ok; a delete
   call with the same identifier that starts after it has returned gets the
   NotFound error. *)
C4_DeleteOnceThenNotFound ==
    [][/\ \A p \in Tasks :
            (Writes(p, "delete") /\ Present(task[p].op, task[p].args.id)) =>
                /\ last'.op = task[p].op
                /\ last'.ret = [status |-> "ok", id |-> task[p].args.id]
                /\ IF task[p].op = "delete_expense"
                   THEN /\ expenses' \subseteq expenses
                        /\ Cardinality(expenses') = Cardinality(expenses) - 1
                        /\ \A r \in expenses' : r.id # task[p].args.id
                        /\ income' = income
                   ELSE /\ income' \subseteq income
                        /\ Cardinality(income') = Cardinality(income) - 1
                        /\ \A r \in income' : r.id # task[p].args.id
                        /\ expenses' = expenses
       /\ (last'.op \in Deletes /\ last'.hist.late) =>
                last'.ret = NotFound(last'.args.id)]_vars

C4_Witness ==
    /\ last.op = "delete_expense"
    /\ last.hist.late
    /\ <<"expenses", last.args.id>> \in deletedOk
    /\ last.ret = NotFound(last.args.id)

(* C5: list_expenses / list_income return exactly the rows of their table
   whose date d has start <= d <= end as text, each once, ordered by date
   descending and, for equal dates, by identifier descending; the empty
   sequence when no row is in the range. *)
ListedExactly(rows, table, start_date, end_date) ==
    /\ {rows[i] : i \in 1 .. Len(rows)} = Within(table, start_date, end_date)
    /\ Len(rows) = Cardinality(Within(table, start_date, end_date))
    /\ \A i \in 1 .. Len(rows) - 1 :
        \/ (rows[i].date # rows[i + 1].date /\ DateLeq(rows[i + 1].date, rows[i].date))
        \/ (rows[i].date = rows[i + 1].date /\ rows[i].id > rows[i + 1].id)
    /\ (Within(table, start_date, end_date) = {}) => rows = <<>>

C5_ListIsRangeInOrder ==
    [][/\ ReturnsAtOnce({"list_expenses"}) =>
            ListedExactly(last'.ret, expenses, last'.args.start_date, last'.args.end_date)
       /\ ReturnsAtOnce({"list_income"}) =>
            ListedExactly(last'.ret, income, last'.args.start_date, last'.args.end_date)]_vars

C5_Witness ==
    /\ last.op = "list_expenses"
    /\ Len(last.ret) = 2
    /\ last.ret[1].date = last.ret[2].date
    /\ last.ret[1].id = 2
    /\ last.ret[2].id = 1

(* C6: when no write commits between the two queries of get_balance, the
   call returns total_expenses and total_income equal to the sums of amount
   over the expense rows and the income rows with date in [start, end], and
   balance = total_income - total_expenses; all three are 0 when no row is
   in the range. *)
C6_BalanceIsIncomeMinusExpenses ==
    [][\A p \in Tasks :
        (Writes(p, "income") /\ Len(hist[p].seen) = 1) =>
            LET a == task[p].args
                te == TrueExpenses(a.start_date, a.end_date)
                ti == TrueIncome(a.start_date, a.end_date)
            IN /\ last'.op = "get_balance"
               /\ last'.ret = [total_income |-> ti, total_expenses |-> te,
                               balance |-> ti - te,
                               start_date |-> a.start_date, end_date |-> a.end_date]
               /\ (Within(expenses, a.start_date, a.end_date) = {}
                   /\ Within(income, a.start_date, a.end_date) = {}) =>
                      (last'.ret.total_income = 0 /\ last'.ret.total_expenses = 0
                       /\ last'.ret.balance = 0)]_vars

C6_Witness ==
    /\ last.op = "get_balance"
    /\ Len(last.hist.seen) = 1
    /\ last.ret.total_income = 5
    /\ last.ret.total_expenses = 2
    /\ last.ret.balance = 3

(* C7 as written: summarize called with a category c other than None returns
   only groups whose category is c, at most one. *)
C7_FilterForEveryCategory ==
    (last.op = "summarize" /\ last.args.category # {}) =>
        /\ Len(last.ret) <= 1
        /\ \A i \in 1 .. Len(last.ret) : {last.ret[i].category} = last.args.category

(* C8: get_balance reads the two totals from the store at two different
   moments: the total_expenses it returns is the total when the call made its
   first query and the total_income it returns is the total when it made its
   second query, with every write committed in between included.  The
   witness is a call whose pair of totals is the pair of no store state that
   existed during the call. *)
C8_TotalsFromTwoMoments ==
    (last.op = "get_balance") =>
        /\ last.ret.total_expenses = last.hist.seen[1][1]
        /\ last.ret.total_income = last.hist.seen[Len(last.hist.seen)][2]

C8_Witness ==
    /\ last.op = "get_balance"
    /\ Len(last.hist.seen) > 1
    /\ \A i \in 1 .. Len(last.hist.seen) :
        last.hist.seen[i] # <<last.ret.total_expenses, last.ret.total_income>>

(* C9 as written: an edit or delete returns status ok only if the row was in
   the table at the moment its UPDATE or DELETE was applied. *)
C9_OkOnlyIfRowPresent ==
    [][\A p \in Tasks :
        (Writes(p, "update") \/ Writes(p, "delete")) =>
            Present(task[p].op, task[p].args.id)]_vars

(* C10 as written: init_db run on a store that holds records leaves every
   expense row and every income row unchanged. *)
C10_InitDbKeepsRows ==
    [][InitDbStep => (expenses' = expenses /\ income' = income)]_vars

====
